---- MODULE Spec2Model ----
(***************************************************************************)
(* Content-fetch-and-render pipeline of the NextWP blog front end.         *)
(*                                                                         *)
(*   src/app/page.tsx       getPosts, Home             (listing page)      *)
(*   src/app/blog/page.tsx  generateStaticParams, getPost, BlogPost        *)
(*                          (static-generation detail page, lines 1-277)   *)
(*                          getPost, BlogPost                              *)
(*                          (diagnostic detail page, lines 278-555)        *)
(*                                                                         *)
(* JSON values are records: null and undefined are the tagged records      *)
(* JNull and JUndef, arrays are [t |-> "array", items |-> <<...>>], and    *)
(* an object is a record of its properties.  Leaf strings are pairs        *)
(* <<field, n>>, one distinct value per field and content item.            *)
(***************************************************************************)
EXTENDS Integers, Sequences, FiniteSets, TLC

VARIABLES store, mode, epoch, cache, last

vars == <<store, mode, epoch, cache, last>>

(***************************************************************************)
(* Program constants and model bounds                                      *)
(***************************************************************************)
PageSize == 12

SlugLimit == 100

Revalidate == 60

Over == 2

MaxChanges == 1

TickStep == Revalidate \div 2

(***************************************************************************)
(* JSON / JavaScript values                                                *)
(***************************************************************************)
JNull == [t |-> "null"]

JUndef == [t |-> "undefined"]

JArray(s) == [t |-> "array", items |-> s]

EmptyArray == JArray(<<>>)

\* JavaScript truthiness of the values that occur here: null and undefined
\* are falsy, every array (the empty one too) and every object is truthy.
Truthy(v) == v # JNull /\ v # JUndef

\* A property read `v.p` throws a TypeError when v is null or undefined.
Nullish(v) == v = JNull \/ v = JUndef

\* JSON.stringify(errors)
Stringify(v) == [t |-> "stringified", of |-> v]

TypeErr == [t |-> "exception", name |-> "TypeError"]

SyntaxErr == [t |-> "exception", name |-> "SyntaxError"]

FetchErr == [t |-> "exception", name |-> "fetch failed"]

\* error.message
Message(e) == [t |-> "message", text |-> e.name]

LogLine(level, text, detail) == [level |-> level, text |-> text, detail |-> detail]

(***************************************************************************)
(* The content service.  The store is the sequence of the numbers of the   *)
(* published items in the order the service lists them; Item(i) is the     *)
(* item with number i as the service holds it.                             *)
(***************************************************************************)
Min(a, b) == IF a <= b THEN a ELSE b

Range(s) == {s[k] : k \in 1..Len(s)}

\* The slug of a request that carries no variables.
NoVars == <<"slug", -1>>

\* The slugs the detail routes are asked for: those of items 1 and 2, each of
\* which the store holds or not.
RouteSlugs == {<<"slug", 1>>, <<"slug", 2>>}

Item(i) ==
  [ id         |-> <<"id", i>>,
    slug       |-> <<"slug", i>>,
    title      |-> <<"title", i>>,
    content    |-> <<"content", i>>,
    excerpt    |-> <<"excerpt", i>>,
    date       |-> <<"date", i>>,
    authorName |-> <<"author", i % 2>>,
    hasImage   |-> (i % 2 = 1),
    image      |-> <<"sourceUrl", i>>,
    cats       |-> [k \in 1..(i % 3) |->
                      [name |-> <<"name", k>>, slug |-> <<"slug", k>>]],
    status     |-> <<"status", i>> ]

\* The three query documents: the root field, the page size asked for, the
\* fields selected on an item and the fields selected on a category.
GET_POSTS_QUERY ==
  [ name      |-> "GetPosts",
    root      |-> "posts",
    first     |-> PageSize,
    fields    |-> {"id", "slug", "title", "excerpt", "date", "author",
                   "featuredImage", "categories"},
    catFields |-> {"name", "slug"} ]

\* The slug query with the page size of the listing query.
GET_POST_SLUGS_QUERY_FirstPage ==
  [ name      |-> "GetPostSlugs",
    root      |-> "posts",
    first     |-> PageSize,
    fields    |-> {"slug"},
    catFields |-> {} ]

GET_POST_SLUGS_QUERY ==
  [ name      |-> "GetPostSlugs",
    root      |-> "posts",
    first     |-> SlugLimit,
    fields    |-> {"slug"},
    catFields |-> {} ]

GET_SINGLE_POST_QUERY ==
  [ name      |-> "GetPost",
    root      |-> "post",
    first     |-> 1,
    fields    |-> {"id", "title", "content", "date", "excerpt", "author",
                   "featuredImage", "categories"},
    catFields |-> {"name"} ]

\* The value of one selected field of an item, in the shape the selection
\* set of the query gives it.
FieldValue(it, f, q) ==
  CASE f = "author" -> [node |-> [name |-> it.authorName]]
    [] f = "featuredImage" ->
         IF it.hasImage THEN [node |-> [sourceUrl |-> it.image]] ELSE JNull
    [] f = "categories" ->
         [nodes |-> JArray([k \in 1..Len(it.cats) |->
                              [g \in q.catFields |-> it.cats[k][g]]])]
    [] OTHER -> it[f]

Project(it, q) == [f \in q.fields |-> FieldValue(it, f, q)]

\* posts(first: n): the first n items of the store, in store order.
\* post(id: $slug, idType: SLUG): the item with that slug, or null.
Execute(q, slug, st) ==
  IF q.root = "posts"
  THEN [posts |-> [nodes |-> JArray([k \in 1..Min(q.first, Len(st)) |->
                                       Project(Item(st[k]), q)])]]
  ELSE [post |-> IF \E k \in 1..Len(st) : Item(st[k]).slug = slug
                 THEN Project(Item(CHOOSE i \in Range(st) : Item(i).slug = slug), q)
                 ELSE JNull]

Errors == JArray(<<[message |-> "Internal server error"]>>)

\* What the service does with a request.
Modes == {"ok", "partial", "errors", "errorsNullData", "nullData", "nullRoot",
          "nullNodes", "nullBody", "garbage", "down"}

NullRoot(q) == IF q.root = "posts" THEN [posts |-> JNull] ELSE [post |-> JNull]

NullNodes(q) ==
  IF q.root = "posts" THEN [posts |-> [nodes |-> JNull]] ELSE [post |-> JNull]

Body(errors, data) == [errors |-> errors, data |-> data]

Response(parses, json) == [t |-> "response", parses |-> parses, json |-> json]

\* The outcome of `await fetch(...)` when the request goes to the service:
\* a rejection, or a response whose body res.json() will parse or not.
Respond(q, slug, st, m) ==
  CASE m = "down"           -> [t |-> "reject", error |-> FetchErr]
    [] m = "garbage"        -> Response(FALSE, JUndef)
    [] m = "nullBody"       -> Response(TRUE, JNull)
    [] m = "ok"             -> Response(TRUE, Body(JUndef, Execute(q, slug, st)))
    [] m = "partial"        -> Response(TRUE, Body(Errors, Execute(q, slug, st)))
    [] m = "errors"         -> Response(TRUE, Body(Errors, JUndef))
    [] m = "errorsNullData" -> Response(TRUE, Body(Errors, JNull))
    [] m = "nullData"       -> Response(TRUE, Body(JUndef, JNull))
    [] m = "nullRoot"       -> Response(TRUE, Body(JUndef, NullRoot(q)))
    [] m = "nullNodes"      -> Response(TRUE, Body(JUndef, NullNodes(q)))

(***************************************************************************)
(* The fetch functions.  Each takes the outcome fr of `await fetch(...)`   *)
(* and yields what the function does with it: the value it returns or the  *)
(* exception that leaves it, and the lines it writes to the console.       *)
(***************************************************************************)
Return(v, log) == [threw |-> FALSE, value |-> v, error |-> JUndef, log |-> log]

Throw(e, log) == [threw |-> TRUE, value |-> JUndef, error |-> e, log |-> log]

\* json.data?.posts?.nodes
OptNodes(json) ==
  IF Nullish(json.data) THEN JUndef
  ELSE IF Nullish(json.data.posts) THEN JUndef
  ELSE json.data.posts.nodes

\* json.data?.post
OptPost(json) == IF Nullish(json.data) THEN JUndef ELSE json.data.post

\* The try block of getPosts.
TryGetPosts(fr) ==
  IF fr.t = "reject" THEN Throw(fr.error, <<>>)
  ELSE IF ~fr.parses THEN Throw(SyntaxErr, <<>>)
  ELSE LET json == fr.json IN
    IF Nullish(json) THEN Throw(TypeErr, <<>>)
    ELSE IF Truthy(json.errors)
      THEN Return(EmptyArray, <<LogLine("error", "GraphQL Errors:", json.errors)>>)
    ELSE IF Nullish(json.data) THEN Throw(TypeErr, <<>>)
    ELSE IF Nullish(json.data.posts) THEN Throw(TypeErr, <<>>)
    ELSE Return(json.data.posts.nodes, <<>>)

\* getPosts with the try block left unguarded.
getPostsUncaught(fr) == TryGetPosts(fr)

\* getPosts that hands the reported errors to its caller.
getPostsLeaksErrors(fr) ==
  LET r == TryGetPosts(fr) IN
    IF r.threw
    THEN Return(EmptyArray, r.log \o <<LogLine("error", "Fetch Error:", r.error)>>)
    ELSE IF fr.json.errors # JUndef THEN Return(fr.json.errors, r.log)
    ELSE r

\* getPosts that keeps one item fewer than the page holds.
getPostsOffByOne(fr) ==
  LET r == TryGetPosts(fr) IN
    IF r.threw
    THEN Return(EmptyArray, r.log \o <<LogLine("error", "Fetch Error:", r.error)>>)
    ELSE IF r.value # JNull /\ r.value.t = "array"
      THEN Return(JArray(SubSeq(r.value.items, 1,
                                Min(Len(r.value.items), PageSize - 1))), r.log)
    ELSE r

\* getPosts whose catch returns null.
getPostsNullOnFailure(fr) ==
  LET r == TryGetPosts(fr) IN
    IF r.threw
    THEN Return(JNull, r.log \o <<LogLine("error", "Fetch Error:", r.error)>>)
    ELSE r

getPosts(fr) ==
  LET r == TryGetPosts(fr) IN
    IF r.threw
    THEN Return(EmptyArray, r.log \o <<LogLine("error", "Fetch Error:", r.error)>>)
    ELSE r

\* The try block of generateStaticParams.
TryGenerateStaticParams(fr) ==
  IF fr.t = "reject" THEN Throw(fr.error, <<>>)
  ELSE IF ~fr.parses THEN Throw(SyntaxErr, <<>>)
  ELSE LET json == fr.json IN
    IF Nullish(json) THEN Throw(TypeErr, <<>>)
    ELSE IF ~Truthy(OptNodes(json))
      THEN Return(EmptyArray,
                  <<LogLine("warn", "No posts found during static generation.", JUndef)>>)
    ELSE LET nodes == json.data.posts.nodes.items IN
      Return(JArray([k \in 1..Len(nodes) |-> [slug |-> nodes[k].slug]]), <<>>)

generateStaticParams(fr) ==
  LET r == TryGenerateStaticParams(fr) IN
    IF r.threw
    THEN Return(EmptyArray,
                r.log \o <<LogLine("error", "Error fetching slugs for SSG:", r.error)>>)
    ELSE r

\* The try block of getPost, static-generation detail page.
TryGetPost(slug, fr) ==
  IF fr.t = "reject" THEN Throw(fr.error, <<>>)
  ELSE IF ~fr.parses THEN Throw(SyntaxErr, <<>>)
  ELSE LET json == fr.json IN
    IF Nullish(json) THEN Throw(TypeErr, <<>>)
    ELSE IF Truthy(json.errors)
      THEN Return(JNull, <<LogLine("error", "GraphQL Error for slug", json.errors)>>)
    ELSE IF ~Truthy(OptPost(json))
      THEN Return(JNull, <<LogLine("error", "No post found for slug", JUndef)>>)
    ELSE Return(json.data.post, <<LogLine("log", "Successfully fetched", JUndef)>>)

\* getPost that fills the body of the post from its excerpt.
getPostExcerptAsContent(slug, fr) ==
  LET r == TryGetPost(slug, fr)
      first == <<LogLine("log", "Fetching post for slug", JUndef)>>
  IN IF r.threw
     THEN Return(JNull, first \o r.log \o
                   <<LogLine("error", "Network error fetching slug", r.error)>>)
     ELSE IF r.value = JNull THEN Return(r.value, first \o r.log)
     ELSE Return([r.value EXCEPT !.content = r.value.excerpt], first \o r.log)

getPost(slug, fr) ==
  LET r == TryGetPost(slug, fr)
      first == <<LogLine("log", "Fetching post for slug", JUndef)>>
  IN IF r.threw
     THEN Return(JNull, first \o r.log \o
                   <<LogLine("error", "Network error fetching slug", r.error)>>)
     ELSE Return(r.value, first \o r.log)

APIResponse(post, error, debugData) ==
  [post |-> post, error |-> error, debugData |-> debugData]

NetworkMarker == [error |-> "Network request failed"]

\* The try block of getPost, diagnostic detail page.
TryGetPostDiagnostic(slug, fr) ==
  IF fr.t = "reject" THEN Throw(fr.error, <<>>)
  ELSE IF ~fr.parses THEN Throw(SyntaxErr, <<>>)
  ELSE LET json == fr.json IN
    IF Nullish(json) THEN Throw(TypeErr, <<>>)
    ELSE Return(APIResponse(
                  IF Truthy(OptPost(json)) THEN OptPost(json) ELSE JNull,
                  IF Truthy(json.errors) THEN Stringify(json.errors) ELSE JUndef,
                  json), <<>>)

\* getPostDiagnostic that keeps only `data` of the response as debugData.
getPostDiagnosticDataOnly(slug, fr) ==
  LET r == TryGetPostDiagnostic(slug, fr) IN
    IF r.threw
    THEN Return(APIResponse(JNull, Message(r.error), NetworkMarker), r.log)
    ELSE Return([r.value EXCEPT !.debugData = fr.json.data], r.log)

getPostDiagnostic(slug, fr) ==
  LET r == TryGetPostDiagnostic(slug, fr) IN
    IF r.threw
    THEN Return(APIResponse(JNull, Message(r.error), NetworkMarker), r.log)
    ELSE r

(***************************************************************************)
(* fetch(url, options) under the hosting framework.  A request made with   *)
(* next: { revalidate: 60 } is answered from the framework's cache while    *)
(* the entry of that request is younger than the interval, and goes to the *)
(* service otherwise; a response obtained that way refills the entry.  A   *)
(* request without that option, or with cache: 'no-store', always goes to  *)
(* the service.  A rejected fetch is never kept.                           *)
(***************************************************************************)
CacheKeys == {<<"GetPosts", NoVars>>} \cup {<<"GetPost", s>> : s \in RouteSlugs}

\* An entry keeps the response, the store epoch that gave it and its age,
\* which is counted up to the interval: from there on the entry is stale.
NoEntry == [filled |-> FALSE, age |-> 0, epoch |-> 0, res |-> Response(FALSE, JUndef)]

Hit(q, slug, policy) ==
  /\ policy = "revalidate"
  /\ cache[<<q.name, slug>>].filled
  /\ cache[<<q.name, slug>>].age < Revalidate

Fetch(q, slug, policy) ==
  IF Hit(q, slug, policy)
  THEN [res      |-> cache[<<q.name, slug>>].res,
        epoch    |-> cache[<<q.name, slug>>].epoch,
        requests |-> 0]
  ELSE [res      |-> Respond(q, slug, store, mode),
        epoch    |-> epoch,
        requests |-> 1]

Refill(q, slug, policy, f) ==
  IF policy = "revalidate" /\ f.requests = 1 /\ f.res.t = "response"
  THEN [cache EXCEPT ![<<q.name, slug>>] =
          [filled |-> TRUE, age |-> 0, epoch |-> epoch, res |-> f.res]]
  ELSE cache

(***************************************************************************)
(* The pages.  A render awaits its fetch function and turns what it got    *)
(* into a page; an exception that leaves the component fails the render.   *)
(***************************************************************************)
\* No page: generateStaticParams renders nothing.
NoPage == [kind |-> "none"]

FailedPage(e) == [kind |-> "failed", error |-> e]

\* "No posts found or connection to WordPress failed."
EmptyState == [kind |-> "empty"]

\* The page of notFound().
NotFoundPage == [kind |-> "notFound"]

ArticlePage(post) == [kind |-> "article", post |-> post]

\* Home: posts.length > 0 ? one PostCard per post : the empty state.
HomeView(posts) ==
  IF Nullish(posts) THEN FailedPage(TypeErr)
  ELSE IF Len(posts.items) > 0 THEN [kind |-> "grid", cards |-> posts.items]
  ELSE EmptyState

HomeRender(r) == IF r.threw THEN FailedPage(r.error) ELSE HomeView(r.value)

\* BlogPost that calls notFound() for an undefined post only.
BlogPostViewUndefinedOnly(post) ==
  IF post = JUndef THEN NotFoundPage
  ELSE IF Nullish(post) THEN FailedPage(TypeErr)
  ELSE ArticlePage(post)

\* BlogPost, static-generation detail page.
BlogPostView(post) ==
  IF ~Truthy(post) THEN NotFoundPage ELSE ArticlePage(post)

BlogPostRender(r) == IF r.threw THEN FailedPage(r.error) ELSE BlogPostView(r.value)

\* BlogPost, diagnostic detail page.
BlogPostDiagnosticView(slug, resp) ==
  IF ~Truthy(resp.post)
  THEN [ kind      |-> "debug",
         slug      |-> slug,
         endpoint  |-> "WORDPRESS_GRAPHQL_ENDPOINT",
         debugData |-> resp.debugData,
         error     |-> resp.error ]
  ELSE ArticlePage(resp.post)

BlogPostDiagnosticRender(slug, r) ==
  IF r.threw THEN FailedPage(r.error) ELSE BlogPostDiagnosticView(slug, r.value)

\* What is kept of one call: the function, its slug, the outcome of its
\* fetch, what it returned or threw, its console lines, the store epoch its
\* answer came from, the time
\* since the call (counted up to the interval), the number of requests that
\* went to the service and the page its render produced.
Call(op, slug, r, f, page) ==
  [ op       |-> op,
    slug     |-> slug,
    res      |-> f.res,
    threw    |-> r.threw,
    ret      |-> r.value,
    log      |-> r.log,
    epoch    |-> f.epoch,
    age      |-> 0,
    requests |-> f.requests,
    page     |-> page ]

NoCall ==
  [ op       |-> "none",
    slug     |-> NoVars,
    res      |-> Response(FALSE, JUndef),
    threw    |-> FALSE,
    ret      |-> JUndef,
    log      |-> <<>>,
    epoch    |-> 0,
    age      |-> 0,
    requests |-> 0,
    page     |-> NoPage ]

(***************************************************************************)
(* The state machine                                                       *)
(***************************************************************************)
\* The store sizes tried: around zero, around the page size of the listing
\* and around the bound of the slug enumeration.
StoreSizes ==
  {0, 1} \cup ((PageSize - 1)..(PageSize + 1))
         \cup ((SlugLimit - 1)..(SlugLimit + Over))

\* The service lists the newest item first.
Init ==
  /\ \E n \in StoreSizes : store = [k \in 1..n |-> n + 1 - k]
  /\ mode \in Modes
  /\ epoch = 0
  /\ cache = [k \in CacheKeys |-> NoEntry]
  /\ last = NoCall

\* A listing render that appends what it fetched to what the render before
\* it had fetched.
HomeAccumulating ==
  LET f == Fetch(GET_POSTS_QUERY, NoVars, "revalidate")
      r == getPosts(f.res)
      seen == IF last.op = "getPosts" /\ last.ret # JNull /\ last.ret.t = "array"
              THEN last.ret.items ELSE <<>>
      all == IF r.value # JNull /\ r.value.t = "array"
             THEN [r EXCEPT !.value = JArray(seen \o r.value.items)] ELSE r
  IN /\ last' = Call("getPosts", NoVars, all, f, HomeRender(all))
     /\ cache' = Refill(GET_POSTS_QUERY, NoVars, "revalidate", f)
     /\ UNCHANGED <<store, mode, epoch>>

\* A listing render that fetches a second time when its fetch was rejected.
HomeRetrying ==
  LET f == Fetch(GET_POSTS_QUERY, NoVars, "revalidate")
      r == getPosts(f.res)
      again == IF f.res.t = "reject" THEN 1 ELSE 0
  IN /\ last' = [Call("getPosts", NoVars, r, f, HomeRender(r))
                   EXCEPT !.requests = f.requests + again]
     /\ cache' = Refill(GET_POSTS_QUERY, NoVars, "revalidate", f)
     /\ UNCHANGED <<store, mode, epoch>>

\* One render of the listing page.
Home ==
  LET f == Fetch(GET_POSTS_QUERY, NoVars, "revalidate")
      r == getPosts(f.res)
  IN /\ last' = Call("getPosts", NoVars, r, f, HomeRender(r))
     /\ cache' = Refill(GET_POSTS_QUERY, NoVars, "revalidate", f)
     /\ UNCHANGED <<store, mode, epoch>>

\* The enumeration of the detail routes.
StaticParams ==
  LET f == Fetch(GET_POST_SLUGS_QUERY, NoVars, "default")
      r == generateStaticParams(f.res)
  IN /\ last' = Call("generateStaticParams", NoVars, r, f, NoPage)
     /\ cache' = Refill(GET_POST_SLUGS_QUERY, NoVars, "default", f)
     /\ UNCHANGED <<store, mode, epoch>>

\* One render of the static-generation detail page.
BlogPost(slug) ==
  LET f == Fetch(GET_SINGLE_POST_QUERY, slug, "revalidate")
      r == getPost(slug, f.res)
  IN /\ last' = Call("getPost", slug, r, f, BlogPostRender(r))
     /\ cache' = Refill(GET_SINGLE_POST_QUERY, slug, "revalidate", f)
     /\ UNCHANGED <<store, mode, epoch>>

\* One render of the diagnostic detail page.
BlogPostDiagnostic(slug) ==
  LET f == Fetch(GET_SINGLE_POST_QUERY, slug, "no-store")
      r == getPostDiagnostic(slug, f.res)
  IN /\ last' = Call("getPostDiagnostic", slug, r, f, BlogPostDiagnosticRender(slug, r))
     /\ cache' = Refill(GET_SINGLE_POST_QUERY, slug, "no-store", f)
     /\ UNCHANGED <<store, mode, epoch>>

\* Time passes: every cache entry and the last call grow older.
Older(age) == Min(age + TickStep, Revalidate)

Tick ==
  /\ cache' = [k \in CacheKeys |->
                 IF cache[k].filled
                 THEN [cache[k] EXCEPT !.age = Older(cache[k].age)]
                 ELSE cache[k]]
  /\ last' = IF last.op = "none" THEN last
             ELSE [last EXCEPT !.age = Older(last.age)]
  /\ UNCHANGED <<store, mode, epoch>>

\* The service publishes an item, which it lists first.
Publish ==
  /\ epoch < MaxChanges
  /\ store' = <<Len(store) + 1>> \o store
  /\ epoch' = epoch + 1
  /\ UNCHANGED <<mode, cache, last>>

\* The service withdraws its newest item.
Unpublish ==
  /\ epoch < MaxChanges
  /\ store # <<>>
  /\ store' = Tail(store)
  /\ epoch' = epoch + 1
  /\ UNCHANGED <<mode, cache, last>>

\* The service starts to fail in the way m.
Fail(m) ==
  /\ epoch < MaxChanges
  /\ mode = "ok"
  /\ m # "ok"
  /\ mode' = m
  /\ epoch' = epoch + 1
  /\ UNCHANGED <<store, cache, last>>

\* The service answers properly again.
Recover ==
  /\ epoch < MaxChanges
  /\ mode # "ok"
  /\ mode' = "ok"
  /\ epoch' = epoch + 1
  /\ UNCHANGED <<store, cache, last>>

Render ==
  \/ Home
  \/ StaticParams
  \/ \E slug \in RouteSlugs : BlogPost(slug)
  \/ \E slug \in RouteSlugs : BlogPostDiagnostic(slug)

\* The renders over time, against a service that stays as it is.
Next ==
  \/ Render
  \/ Tick

Spec == Init /\ [][Next]_vars

\* The renders over time, against a small store and a service that change;
\* the service starts in order or in an outage.
InitSmall ==
  /\ store \in {<<>>, <<1>>}
  /\ mode \in {"ok", "down"}
  /\ epoch = 0
  /\ cache = [k \in CacheKeys |-> NoEntry]
  /\ last = NoCall

NextRevalidate ==
  \/ Render
  \/ Tick
  \/ Publish
  \/ Unpublish
  \/ \E m \in Modes : Fail(m)
  \/ Recover

SpecRevalidate == InitSmall /\ [][NextRevalidate]_vars

(***************************************************************************)
(* Vocabulary of the properties                                            *)
(***************************************************************************)
\* The answer of the last call came from the service as it is now.
Fresh == last.epoch = epoch

\* The fetch of the last call was rejected: no response was obtained.
Rejected(c) == c.res.t = "reject"

\* The fetch of the last call obtained a response whose body is no JSON.
Unparsable(c) == c.res.t = "response" /\ ~c.res.parses

\* The fetch of the last call obtained a response whose body is a JSON
\* object, the { data?, errors? } of the wire contract.
HasBody(c) == c.res.t = "response" /\ c.res.parses /\ ~Nullish(c.res.json)

\* ... and that object has `errors` present.
HasErrors(c) == HasBody(c) /\ c.res.json.errors # JUndef

IsGetBySlug(c) == c.op \in {"getPost", "getPostDiagnostic"}

\* The call returned, and what it returned holds a post: Found.
Found(c) ==
  /\ ~c.threw
  /\ IF c.op = "getPost" THEN c.ret # JNull ELSE c.ret.post # JNull

\* The call returned, and what it returned holds no post.
NonFound(c) ==
  /\ ~c.threw
  /\ IF c.op = "getPost" THEN c.ret = JNull ELSE c.ret.post = JNull

\* The store holds an item with that slug.
Holds(slug) == \E k \in 1..Len(store) : Item(store[k]).slug = slug

(***************************************************************************)
(* C1.  For every response whose JSON body has `errors` present, whatever  *)
(* `data` holds, getBySlug returns a non-Found outcome and does not throw, *)
(* at the static-generation getPost and at the diagnostic getPost.         *)
(***************************************************************************)
C1_ErrorsNeverFound ==
  (IsGetBySlug(last) /\ HasErrors(last)) => NonFound(last)

(***************************************************************************)
(* C2.  When the fetch is rejected, no exception leaves any of the fetch   *)
(* functions and each returns its empty outcome: getPosts and              *)
(* generateStaticParams the empty array, the static getPost null, the      *)
(* diagnostic getPost post = null together with an error text.             *)
(***************************************************************************)
C2_TransportFailureIsEmpty ==
  (last.op # "none" /\ Rejected(last)) =>
    /\ ~last.threw
    /\ last.op \in {"getPosts", "generateStaticParams"} => last.ret = EmptyArray
    /\ last.op = "getPost" => last.ret = JNull
    /\ last.op = "getPostDiagnostic" =>
         (last.ret.post = JNull /\ last.ret.error = Message(last.res.error))

C2_Witness ==
  /\ last.op = "getPostDiagnostic"
  /\ Rejected(last)
  /\ last.ret.post = JNull
  /\ last.ret.error = Message(FetchErr)

(***************************************************************************)
(* C3.  getPosts never raises to its caller, and for a rejected fetch, an  *)
(* unparsable body and a response that reports `errors` it returns the     *)
(* empty array, the failure detail going to one console.error line and not *)
(* into the returned value.                                                *)
(***************************************************************************)
FailureDetail(c) ==
  IF Rejected(c) THEN c.res.error
  ELSE IF Unparsable(c) THEN SyntaxErr
  ELSE c.res.json.errors

C3_ListRecentNeverRaises ==
  last.op = "getPosts" =>
    /\ ~last.threw
    /\ (Rejected(last) \/ Unparsable(last) \/ HasErrors(last)) =>
         /\ last.ret = EmptyArray
         /\ Len(last.log) = 1
         /\ last.log[1].level = "error"
         /\ last.log[1].detail = FailureDetail(last)

C3_Witness ==
  /\ last.op = "getPosts"
  /\ HasErrors(last)
  /\ last.res.json.data # JUndef
  /\ last.ret = EmptyArray
  /\ last.log[1].detail = Errors

(***************************************************************************)
(* C4.  Against a store of N items and a service that answers the query    *)
(* without errors, getPosts returns exactly min(N, 12) items: the first    *)
(* min(N, 12) items of the store, in the order of the store.               *)
(***************************************************************************)
C4_ListRecentPage ==
  (last.op = "getPosts" /\ Fresh /\ mode = "ok") =>
    /\ ~last.threw
    /\ last.ret.t = "array"
    /\ Len(last.ret.items) = Min(Len(store), PageSize)
    /\ \A k \in 1..Len(last.ret.items) :
         /\ last.ret.items[k].id = Item(store[k]).id
         /\ last.ret.items[k] = Project(Item(store[k]), GET_POSTS_QUERY)

C4_Witness ==
  /\ last.op = "getPosts"
  /\ Fresh
  /\ mode = "ok"
  /\ Len(store) > PageSize
  /\ Len(last.ret.items) = PageSize
  /\ last.ret.items[PageSize].id = Item(store[PageSize]).id

(***************************************************************************)
(* C5.  For a slug the store holds and a service that answers without      *)
(* errors, getBySlug returns Found at both call sites, and the post it     *)
(* returns carries exactly the fields of the projection, each equal to the *)
(* field of the store's item: id, title, content, date, excerpt, author    *)
(* name, cover image, categories.                                          *)
(***************************************************************************)
PostOf(c) == IF c.op = "getPost" THEN c.ret ELSE c.ret.post

ItemOf(slug) == Item(CHOOSE i \in Range(store) : Item(i).slug = slug)

SameFields(post, it) ==
  /\ DOMAIN post = {"id", "title", "content", "date", "excerpt", "author",
                    "featuredImage", "categories"}
  /\ post.id = it.id
  /\ post.title = it.title
  /\ post.content = it.content
  /\ post.date = it.date
  /\ post.excerpt = it.excerpt
  /\ post.author = [node |-> [name |-> it.authorName]]
  /\ post.featuredImage =
       (IF it.hasImage THEN [node |-> [sourceUrl |-> it.image]] ELSE JNull)
  /\ Len(post.categories.nodes.items) = Len(it.cats)
  /\ \A k \in 1..Len(it.cats) :
       post.categories.nodes.items[k] = [name |-> it.cats[k].name]

C5_FoundFieldForField ==
  (IsGetBySlug(last) /\ Fresh /\ mode = "ok" /\ Holds(last.slug)) =>
    /\ Found(last)
    /\ SameFields(PostOf(last), ItemOf(last.slug))

C5_Witness ==
  /\ last.op = "getPost"
  /\ Fresh
  /\ mode = "ok"
  /\ last.slug = <<"slug", 2>>
  /\ Holds(last.slug)
  /\ last.ret # JNull
  /\ last.ret.featuredImage = JNull
  /\ Len(last.ret.categories.nodes.items) = 2

(***************************************************************************)
(* C6.  For a slug the store does not hold, getBySlug returns a non-Found  *)
(* outcome.  At the diagnostic call site, whenever the service answered    *)
(* with a JSON object, debugData is that object, and it differs from the   *)
(* debugData of a rejected fetch, which is the network-failure marker.     *)
(***************************************************************************)
C6_MissingSlug ==
  /\ (IsGetBySlug(last) /\ Fresh /\ ~Holds(last.slug)) => NonFound(last)
  /\ (last.op = "getPostDiagnostic" /\ Fresh /\ ~Holds(last.slug) /\ HasBody(last)) =>
       /\ last.ret.debugData = last.res.json
       /\ last.ret.debugData # NetworkMarker
  /\ (last.op = "getPostDiagnostic" /\ Rejected(last)) =>
       last.ret.debugData = NetworkMarker

C6_Witness ==
  /\ last.op = "getPostDiagnostic"
  /\ Fresh
  /\ mode = "ok"
  /\ store # <<>>
  /\ ~Holds(last.slug)
  /\ last.ret.post = JNull
  /\ last.ret.error = JUndef
  /\ last.ret.debugData = Body(JUndef, [post |-> JNull])

(***************************************************************************)
(* C7.  generateStaticParams returns the empty array on any error: when    *)
(* the fetch is rejected, when the body cannot be parsed and when the      *)
(* response has `errors` present, with or without a populated              *)
(* data.posts.nodes.                                                       *)
(***************************************************************************)
C7_SlugsEmptyOnError ==
  (last.op = "generateStaticParams"
     /\ (Rejected(last) \/ Unparsable(last) \/ HasErrors(last))) =>
    (~last.threw /\ last.ret = EmptyArray)

ErrorSet(c) == c.op = "getPostDiagnostic" /\ c.ret.error # JUndef

C10_ExactlyOneVariant ==
  IsGetBySlug(last) =>
    /\ ~last.threw
    /\ Found(last) \/ NonFound(last)
    /\ ~(Found(last) /\ ErrorSet(last))

(***************************************************************************)
(* C9.  Idempotence.  When a fetch function is called again with the same  *)
(* slug, the call before it having been answered by the service as it is   *)
(* now and lying less than one revalidation interval back, the second call *)
(* returns what the first returned, whether its answer comes from the      *)
(* cache or from a request of its own.                                     *)
(***************************************************************************)
Repeats ==
  /\ last.op # "none"
  /\ last'.op = last.op
  /\ last'.slug = last.slug
  /\ Fresh
  /\ last.age < Revalidate

C11_StaticDetailCollapses ==
  last.op = "getPost" =>
    /\ (last.page = NotFoundPage) <=> (last.ret = JNull)
    /\ (last.page.kind = "article") <=> Found(last)
    /\ last.page.kind = "article" => last.page = ArticlePage(last.ret)
    /\ (Rejected(last) \/ Unparsable(last) \/ HasErrors(last)
          \/ (Fresh /\ mode = "ok" /\ ~Holds(last.slug))) =>
         last.page = NotFoundPage

C11_Witness ==
  /\ last.op = "getPost"
  /\ HasErrors(last)
  /\ last.res.json.data # JUndef
  /\ last.res.json.data # JNull
  /\ last.res.json.data.post # JNull
  /\ last.ret = JNull
  /\ last.page = NotFoundPage

(***************************************************************************)
(* C12.  Whatever the service does, also when it answers without errors    *)
(* and `data`, `data.posts` or `data.posts.nodes` is null, getPosts        *)
(* returns an array, and the render of the listing page completes: with    *)
(* the grid when the array is not empty, with the empty state when it is.  *)
(***************************************************************************)
C12_ListingAlwaysRenders ==
  last.op = "getPosts" =>
    /\ ~last.threw
    /\ last.ret.t = "array"
    /\ last.page.kind \in {"grid", "empty"}
    /\ (last.page.kind = "grid") <=> (Len(last.ret.items) > 0)

(***************************************************************************)
(* C13.  On the listing page an outage cannot be told from an empty store: *)
(* after a rejected fetch, after a response with `errors` and after an     *)
(* answer without errors from a store of zero items, getPosts returns the  *)
(* same value, the empty array, and Home renders the same page, the empty  *)
(* state.                                                                  *)
(***************************************************************************)
C13_OutageLooksEmpty ==
  (last.op = "getPosts"
     /\ (Rejected(last) \/ HasErrors(last)
           \/ (Fresh /\ mode = "ok" /\ store = <<>>))) =>
    /\ last.ret = EmptyArray
    /\ last.page = EmptyState

C13_Witness ==
  /\ last.op = "getPosts"
  /\ Rejected(last)
  /\ Len(store) > 0
  /\ last.ret = EmptyArray
  /\ last.page = EmptyState

(***************************************************************************)
(* C14.  Each fetch is one shot: a render issues at most one request to    *)
(* the service, also when the fetch is rejected, the body cannot be parsed *)
(* or the response reports errors; none at all when the cache answers.     *)
(***************************************************************************)
C14_OneRequestPerRender ==
  last.op # "none" =>
    /\ last.requests <= 1
    /\ (Rejected(last) \/ Unparsable(last) \/ HasErrors(last)) => last.requests <= 1
    /\ Rejected(last) => last.requests = 1

C14_Witness ==
  /\ last.op = "getPosts"
  /\ Rejected(last)
  /\ last.requests = 1
  /\ last.page = EmptyState

====
